---- MODULE Spec2Model ----
(***************************************************************************)
(* Model of app.py, the Streamlit video compressor.                        *)
(*                                                                         *)
(* main() is a script that Streamlit runs from top to bottom after every   *)
(* user interaction (an upload, a changed setting, a toggled checkbox, a   *)
(* pressed button).  The widget values persist between runs; everything    *)
(* else (videos_data, compressed_videos, ...) is rebuilt by each run.  The *)
(* file system (temporary input files, output files) outlives the runs.    *)
(*                                                                         *)
(* Python floats are modelled as exact fractions <<num, den>>, None as the *)
(* empty tuple, a present optional record r as <<r>>, and the option       *)
(* strings of the widgets as sequences of characters so that the code's    *)
(* parsing of them is computed and not assumed.                            *)
(***************************************************************************)
EXTENDS Integers, Sequences, FiniteSets, TLC

\* ------------------------------------------------------------- bounds
MaxFiles == 2
MaxTmp == 2

\* ------------------------------------------------------------- values
None == << >>
Some(x) == <<x>>

MiB == 1048576

RECURSIVE GCD(_, _)
GCD(a, b) == IF b = 0 THEN a ELSE GCD(b, a % b)

Abs(x) == IF x < 0 THEN -x ELSE x

\* A float: numerator over a positive denominator, in lowest terms.
Frac(n, d) ==
    LET g == GCD(Abs(n), Abs(d))
        s == IF d < 0 THEN -1 ELSE 1
    IN  <<(s * n) \div g, (s * d) \div g>>

FMul(x, y) == Frac(x[1] * y[1], x[2] * y[2])
FDiv(x, y) == Frac(x[1] * y[2], x[2] * y[1])
FAdd(x, y) == Frac(x[1] * y[2] + y[1] * x[2], x[2] * y[2])
FSub(x, y) == Frac(x[1] * y[2] - y[1] * x[2], x[2] * y[2])
FInt(n) == <<n, 1>>
FZero == <<0, 1>>

\* ------------------------------------------------------------- strings
ORIGINAL == <<"o", "r", "i", "g", "i", "n", "a", "l">>

DigitValue(c) ==
    CASE c = "0" -> 0 [] c = "1" -> 1 [] c = "2" -> 2 [] c = "3" -> 3
      [] c = "4" -> 4 [] c = "5" -> 5 [] c = "6" -> 6 [] c = "7" -> 7
      [] c = "8" -> 8 [] c = "9" -> 9

\* int(s) for a string of decimal digits
RECURSIVE ParseInt(_)
ParseInt(s) ==
    IF Len(s) = 0 THEN 0
    ELSE 10 * ParseInt(SubSeq(s, 1, Len(s) - 1)) + DigitValue(s[Len(s)])

\* s.replace('k', '000')
RECURSIVE ReplaceK(_)
ReplaceK(s) ==
    IF Len(s) = 0 THEN << >>
    ELSE (IF Head(s) = "k" THEN <<"0", "0", "0">> ELSE <<Head(s)>>) \o ReplaceK(Tail(s))

\* s.split('x') for a string with one 'x': the parts before and after it
SplitX(s) ==
    LET p == CHOOSE k \in 1..Len(s) : s[k] = "x"
    IN  <<SubSeq(s, 1, p - 1), SubSeq(s, p + 1, Len(s))>>

\* ------------------------------------------------------------- widgets
ResolutionOptions == {ORIGINAL, <<"1", "2", "8", "0", "x", "7", "2", "0">>}
FpsOptions == {ORIGINAL, <<"2", "4">>, <<"3", "0">>}
BitrateOptions == {<<"5", "0", "0", "k">>, <<"1", "0", "0", "0", "k">>}

DefaultResolution == <<"1", "2", "8", "0", "x", "7", "2", "0">>
DefaultFps == <<"2", "4">>
DefaultBitrate == <<"1", "0", "0", "0", "k">>

\* ------------------------------------------------------------- uploads
\* What ffprobe answers for a file: "error" (the tool fails) or its parsed
\* output, the streams in order and the container's duration in seconds.
VideoStream(w, h, r) == [codec_type |-> "video", width |-> w, height |-> h, r_frame_rate |-> r]
AudioStream == [codec_type |-> "audio", width |-> 0, height |-> 0, r_frame_rate |-> <<0, 0>>]

ProbeFull == [error |-> FALSE, streams |-> <<VideoStream(1920, 1080, <<60, 1>>), AudioStream>>, duration |-> 10]
ProbeBare == [error |-> FALSE, streams |-> <<VideoStream(0, 0, <<30, 1>>)>>, duration |-> 0]
ProbeAudioOnly == [error |-> FALSE, streams |-> <<AudioStream>>, duration |-> 10]
ProbeError == [error |-> TRUE, streams |-> << >>, duration |-> 0]

EncodedBytes == {3 * MiB}

File(n, b, p) == [name |-> n, bytes |-> b, probe |-> p]

\* The files a user uploads: videos of 10 MB under two names, an empty file
\* (which ffprobe cannot read) under the name of one of them, a file with
\* sound only, and a video for which ffprobe gives no dimensions or duration.
UploadedFile ==
    {File("a.mp4", 10 * MiB, ProbeFull),
     File("a.mp4", 0, ProbeError),
     File("b.mp4", 10 * MiB, ProbeFull),
     File("b.mp4", 10 * MiB, ProbeAudioOnly),
     File("b.mp4", 10 * MiB, ProbeBare)}
UploadSets == UNION {[1..n -> UploadedFile] : n \in 1..MaxFiles}

VARIABLES
    resolution, remove_audio, fps, bitrate,   \* the sidebar widgets
    uploaded_files,                           \* the file uploader widget
    select_state,                             \* the per-video checkboxes
    button,                                   \* st.button's value in this run
    pc,                                       \* where the script run is
    videos_data, shown, selected_videos, i, compressed_videos,
    warned, report, error,
    invoked,                                  \* the calls of compress_video, in order
    tempfiles,                                \* staged input files that exist
    outFiles                                  \* output path -> size of the file there

widgets == <<resolution, remove_audio, fps, bitrate, uploaded_files, select_state>>
runvars == <<button, pc, videos_data, shown, selected_videos, i, compressed_videos,
             warned, report, error, invoked>>
files == <<tempfiles, outFiles>>
vars == <<widgets, runvars, files>>

\* ------------------------------------------------------------- functions
\* get_file_size: the size in MB
get_file_size(size_bytes) == Frac(size_bytes, MiB)

FirstStream(streams, type) ==
    LET ks == {k \in 1..Len(streams) : streams[k].codec_type = type}
    IN  IF ks = {} THEN None
        ELSE Some(streams[CHOOSE k \in ks : \A m \in ks : k <= m])

\* get_video_info: None when ffprobe fails or there is no video stream
\* (video_info.get on None raises, and the except returns None)
get_video_info(probe) ==
    IF probe.error THEN None
    ELSE LET video_info == FirstStream(probe.streams, "video")
             audio_info == FirstStream(probe.streams, "audio")
         IN  IF video_info = None THEN None
             ELSE Some([width |-> video_info[1].width,
                        height |-> video_info[1].height,
                        duration |-> probe.duration,
                        has_audio |-> audio_info # None])

\* eval of a rational string "n/d"; None when it raises
EvalRate(r) == IF r[2] = 0 THEN None ELSE Frac(r[1], r[2])

\* video_info.get('r_frame_rate', '30/1')
GetFrameRate(info) ==
    IF "r_frame_rate" \in DOMAIN info THEN info["r_frame_rate"] ELSE <<30, 1>>

OriginalFps(info) ==
    LET v == EvalRate(GetFrameRate(info))
    IN  IF v = None THEN FInt(30) ELSE v

ResolutionFactor(info, res) ==
    IF res = ORIGINAL THEN FInt(1)
    ELSE LET wh == SplitX(res)
             target_area == ParseInt(wh[1]) * ParseInt(wh[2])
             original_area == info.width * info.height
         IN  IF original_area > 0 THEN Frac(target_area, original_area) ELSE FInt(1)

FpsFactor(info, f) ==
    IF f = ORIGINAL THEN FInt(1)
    ELSE FDiv(FInt(ParseInt(f)), OriginalFps(info))

AudioFactor(info, ra) == IF ra /\ info.has_audio THEN Frac(85, 100) ELSE FInt(1)

\* estimate_size: the estimate in MB, None without video_info
estimate_size(video_info, res, ra, f, br) ==
    IF video_info = None THEN None
    ELSE LET info == video_info[1]
             bitrate_value == ParseInt(ReplaceK(br))
             estimated_bytes ==
                 FMul(FMul(FMul(FMul(Frac(bitrate_value, 8), FInt(info.duration)),
                                ResolutionFactor(info, res)),
                           FpsFactor(info, f)),
                      AudioFactor(info, ra))
         IN  FDiv(estimated_bytes, FInt(MiB))

\* Python truthiness of estimated_size
Truthy(est) == est # None /\ est[1] # 0

DisplayedEstimate_Stale(video_info, res, ra, f, br) ==
    LET estimated_size == estimate_size(video_info, DefaultResolution, TRUE,
                                        DefaultFps, DefaultBitrate)
    IN  IF Truthy(estimated_size) THEN estimated_size ELSE None

\* the estimate a grid cell shows: none without video_info or when it is 0
DisplayedEstimate(video_info, res, ra, f, br) ==
    LET estimated_size == estimate_size(video_info, res, ra, f, br)
    IN  IF Truthy(estimated_size) THEN estimated_size ELSE None

\* tempfile.NamedTemporaryFile: a name no existing file has
NewTemp(existing) == CHOOSE p \in 0..Cardinality(existing) : p \notin existing

\* os.path.join(tempfile.gettempdir(), f"compressed_{name}")
OutputPath(name) == <<"tmp", "compressed_", name>>

Selected_All(vs) == vs

RECURSIVE Selected(_)
Selected(vs) ==
    IF Len(vs) = 0 THEN << >>
    ELSE (IF Head(vs).selected_for_compression THEN <<Head(vs)>> ELSE << >>) \o Selected(Tail(vs))

RECURSIVE SumOf(_, _)
SumOf(vs, field) ==
    IF Len(vs) = 0 THEN FZero ELSE FAdd(vs[1][field], SumOf(Tail(vs), field))

\* (1 - compressed/original) * 100; original is not zero
Reduction(compressed, original) ==
    FMul(FSub(FInt(1), FDiv(compressed, original)), FInt(100))

\* ------------------------------------------------------------- Init
Init ==
    /\ resolution = DefaultResolution
    /\ remove_audio = TRUE
    /\ fps = DefaultFps
    /\ bitrate = DefaultBitrate
    /\ uploaded_files = << >>
    /\ select_state = << >>
    /\ button = FALSE
    /\ pc = "done"
    /\ videos_data = << >>
    /\ shown = << >>
    /\ selected_videos = << >>
    /\ i = 0
    /\ compressed_videos = << >>
    /\ warned = FALSE
    /\ report = None
    /\ error = "none"
    /\ invoked = << >>
    /\ tempfiles = {}
    /\ outFiles = << >>

\* ------------------------------------------------------------- a script run
Idle == pc \in {"done", "crashed"}

\* Streamlit reruns main() from the top: the run's locals start afresh.
StartRun(uploads, pressed) ==
    /\ Idle
    /\ Cardinality(tempfiles) + Len(uploads) <= MaxTmp
    /\ button' = pressed
    /\ pc' = IF uploads = << >> THEN "done" ELSE "stage"
    /\ videos_data' = << >>
    /\ shown' = << >>
    /\ selected_videos' = << >>
    /\ i' = 0
    /\ compressed_videos' = << >>
    /\ warned' = FALSE
    /\ report' = None
    /\ error' = "none"
    /\ invoked' = << >>
    /\ UNCHANGED files

Upload ==
    \E fs \in UploadSets :
        /\ uploaded_files = << >>
        /\ uploaded_files' = fs
        /\ select_state' = [k \in 1..Len(fs) |-> TRUE]
        /\ StartRun(fs, FALSE)
        /\ UNCHANGED <<resolution, remove_audio, fps, bitrate>>

\* the user removes the files from the uploader
ClearUploads ==
    /\ uploaded_files # << >>
    /\ uploaded_files' = << >>
    /\ select_state' = << >>
    /\ StartRun(<< >>, FALSE)
    /\ UNCHANGED <<resolution, remove_audio, fps, bitrate>>

SetResolution ==
    \E r \in ResolutionOptions \ {resolution} :
        /\ resolution' = r
        /\ StartRun(uploaded_files, FALSE)
        /\ UNCHANGED <<remove_audio, fps, bitrate, uploaded_files, select_state>>

SetRemoveAudio ==
    /\ remove_audio' = ~remove_audio
    /\ StartRun(uploaded_files, FALSE)
    /\ UNCHANGED <<resolution, fps, bitrate, uploaded_files, select_state>>

SetFps ==
    \E f \in FpsOptions \ {fps} :
        /\ fps' = f
        /\ StartRun(uploaded_files, FALSE)
        /\ UNCHANGED <<resolution, remove_audio, bitrate, uploaded_files, select_state>>

SetBitrate ==
    \E b \in BitrateOptions \ {bitrate} :
        /\ bitrate' = b
        /\ StartRun(uploaded_files, FALSE)
        /\ UNCHANGED <<resolution, remove_audio, fps, uploaded_files, select_state>>

Toggle ==
    \E k \in 1..Len(select_state) :
        /\ select_state' = [select_state EXCEPT ![k] = ~@]
        /\ StartRun(uploaded_files, FALSE)
        /\ UNCHANGED <<resolution, remove_audio, fps, bitrate, uploaded_files>>

PressCompress ==
    /\ uploaded_files # << >>
    /\ StartRun(uploaded_files, TRUE)
    /\ UNCHANGED widgets

\* one iteration of the loop over uploaded_files
StageFile ==
    /\ pc = "stage"
    /\ LET idx == Len(videos_data) + 1
           uploaded_file == uploaded_files[idx]
           input_path == NewTemp(tempfiles)
       IN  /\ tempfiles' = tempfiles \cup {input_path}
           /\ videos_data' = Append(videos_data,
                  [key |-> <<idx, uploaded_file.name>>,
                   name |-> uploaded_file.name,
                   path |-> input_path,
                   original_size |-> get_file_size(uploaded_file.bytes),
                   video_info |-> get_video_info(uploaded_file.probe),
                   selected_for_compression |-> TRUE])
           /\ pc' = IF idx = Len(uploaded_files) THEN "review" ELSE "stage"
    /\ UNCHANGED <<widgets, button, shown, selected_videos, i, compressed_videos,
                   warned, report, error, invoked, outFiles>>

\* one cell of the grid: the checkbox, then the estimate when there is one
ReviewItem ==
    /\ pc = "review"
    /\ LET k == Len(shown) + 1
           video_data == videos_data[k]
           display == DisplayedEstimate(video_data.video_info, resolution,
                                        remove_audio, fps, bitrate)
           raises == display # None /\ video_data.original_size = FZero
       IN  /\ videos_data' = [videos_data EXCEPT ![k].selected_for_compression = select_state[k]]
           /\ shown' = Append(shown, display)
           /\ error' = IF raises THEN "ZeroDivisionError" ELSE error
           /\ pc' = IF raises THEN "crashed"
                    ELSE IF k = Len(videos_data) THEN "button" ELSE "review"
    /\ UNCHANGED <<widgets, button, selected_videos, i, compressed_videos,
                   warned, report, invoked, files>>

\* if st.button(...): the selection, and the warning when it is empty
Button ==
    /\ pc = "button"
    /\ IF ~button
       THEN /\ pc' = "cleanup"
            /\ UNCHANGED <<selected_videos, i, warned>>
       ELSE LET sel == Selected(videos_data)
            IN  /\ selected_videos' = sel
                /\ warned' = (sel = << >>)
                /\ i' = 0
                /\ pc' = IF sel = << >> THEN "cleanup" ELSE "compress"
    /\ UNCHANGED <<widgets, button, videos_data, shown, compressed_videos,
                   report, error, invoked, files>>

\* What the ffmpeg process can do: exit 0 having written the output file,
\* exit 0 without writing it, or exit with an error; `out` is the output
\* directory after it.
EncoderOutcomes(output_path, existing) ==
    {[status |-> 0, out |-> (output_path :> b) @@ existing] : b \in EncodedBytes}
    \cup {[status |-> 0, out |-> existing], [status |-> 1, out |-> existing]}

\* int(s) raises unless s is a string of digits
IsInt(s) == Len(s) > 0 /\ \A k \in 1..Len(s) : s[k] \in {"0", "1", "2", "3", "4", "5", "6", "7", "8", "9"}

\* The filters can be built: width, height = map(int, resolution.split('x'))
\* and int(fps) do not raise.
CommandBuilt(res, f) ==
    /\ res = ORIGINAL \/ /\ Cardinality({k \in 1..Len(res) : res[k] = "x"}) = 1
                          /\ IsInt(SplitX(res)[1])
                          /\ IsInt(SplitX(res)[2])
    /\ f = ORIGINAL \/ IsInt(f)

\* compress_video: True unless building the command or ffmpeg.run raised
\* (ffmpeg.run raises on a non-zero exit status)
compress_video(res, f, outcome) == CommandBuilt(res, f) /\ outcome.status = 0

AddResult_Always(results, video_data, output_path, success, out) ==
    Append(results,
           [key |-> video_data.key,
            name |-> video_data.name,
            output_path |-> output_path,
            original_size |-> video_data.original_size,
            compressed_size |-> get_file_size(IF output_path \in DOMAIN out THEN out[output_path] ELSE 0)])

\* if success: the result appended to compressed_videos (the output file exists)
AddResult(results, video_data, output_path, success, out) ==
    IF success
    THEN Append(results,
                [key |-> video_data.key,
                 name |-> video_data.name,
                 output_path |-> output_path,
                 original_size |-> video_data.original_size,
                 compressed_size |-> get_file_size(out[output_path])])
    ELSE results

\* one iteration of the loop over selected_videos; get_file_size raises when
\* compress_video returned True and there is no file at output_path.  Each
\* call of compress_video is logged in `invoked` with what the encoder did.
CompressItem ==
    /\ pc = "compress"
    /\ LET video_data == selected_videos[i + 1]
           output_path == OutputPath(video_data.name)
       IN  \E outcome \in IF CommandBuilt(resolution, fps)
                            THEN EncoderOutcomes(output_path, outFiles)
                            ELSE {[status |-> 1, out |-> outFiles]} :
            LET success == compress_video(resolution, fps, outcome)
                present == output_path \in DOMAIN outcome.out
                missing == success /\ ~present
            IN  /\ invoked' = Append(invoked, [key |-> video_data.key,
                                               input |-> video_data.path,
                                               output |-> output_path,
                                               spawned |-> CommandBuilt(resolution, fps),
                                               status |-> outcome.status,
                                               present |-> present,
                                               out_bytes |-> IF present THEN outcome.out[output_path] ELSE 0,
                                               success |-> success])
                /\ outFiles' = outcome.out
                /\ compressed_videos' =
                       IF missing THEN compressed_videos
                       ELSE AddResult(compressed_videos, video_data, output_path,
                                      success, outcome.out)
                /\ error' = IF missing THEN "FileNotFoundError" ELSE error
                /\ i' = i + 1
                /\ pc' = IF missing THEN "crashed"
                         ELSE IF i + 1 = Len(selected_videos) THEN "report" ELSE "compress"
    /\ UNCHANGED <<widgets, button, videos_data, shown, selected_videos,
                   warned, report, tempfiles>>

\* the results: the totals, then each compressed video's own reduction
Report ==
    /\ pc = "report"
    /\ IF compressed_videos = << >>
       THEN /\ pc' = "cleanup"
            /\ UNCHANGED <<report, error>>
       ELSE LET total_original == SumOf(compressed_videos, "original_size")
                total_compressed == SumOf(compressed_videos, "compressed_size")
            IN  IF total_original = FZero
                THEN /\ report' = None
                     /\ error' = "ZeroDivisionError"
                     /\ pc' = "crashed"
                ELSE /\ report' = Some([total_original |-> total_original,
                                        total_compressed |-> total_compressed,
                                        reduction |-> Reduction(total_compressed, total_original)])
                     /\ IF \E k \in 1..Len(compressed_videos) :
                               compressed_videos[k].original_size = FZero
                        THEN error' = "ZeroDivisionError" /\ pc' = "crashed"
                        ELSE error' = error /\ pc' = "cleanup"
    /\ UNCHANGED <<widgets, button, videos_data, shown, selected_videos, i,
                   compressed_videos, warned, invoked, files>>

\* os.remove on every staged input (the files are this run's own, so the
\* removals succeed)
Cleanup ==
    /\ pc = "cleanup"
    /\ tempfiles' = tempfiles \ {videos_data[k].path : k \in 1..Len(videos_data)}
    /\ pc' = "done"
    /\ UNCHANGED <<widgets, button, videos_data, shown, selected_videos, i,
                   compressed_videos, warned, report, error, invoked, outFiles>>

Next ==
    \/ Upload
    \/ ClearUploads
    \/ SetResolution
    \/ SetRemoveAudio
    \/ SetFps
    \/ SetBitrate
    \/ Toggle
    \/ PressCompress
    \/ StageFile
    \/ ReviewItem
    \/ Button
    \/ CompressItem
    \/ Report
    \/ Cleanup

Spec == Init /\ [][Next]_vars

\* One shared CompressionSettings for the whole session: the batch pipeline
\* under the default settings.
NextBatch ==
    \/ Upload
    \/ ClearUploads
    \/ Toggle
    \/ PressCompress
    \/ StageFile
    \/ ReviewItem
    \/ Button
    \/ CompressItem
    \/ Report
    \/ Cleanup

SpecBatch == Init /\ [][NextBatch]_vars

\* The Review phase alone: uploads, settings changes and selection toggles,
\* the user never pressing the compress button.
NextReview ==
    \/ Upload
    \/ ClearUploads
    \/ SetResolution
    \/ SetRemoveAudio
    \/ SetFps
    \/ SetBitrate
    \/ Toggle
    \/ StageFile
    \/ ReviewItem
    \/ Button
    \/ Cleanup

SpecReview == Init /\ [][NextReview]_vars

\* ============================================================= properties
RunOver == pc \in {"done", "crashed"}
NoneSelected == \A k \in 1..Len(videos_data) : ~videos_data[k].selected_for_compression
SelectedKeys == {videos_data[k].key : k \in {m \in 1..Len(videos_data) : videos_data[m].selected_for_compression}}

\* C1: in a run whose compress button was pressed, the encoder is invoked
\* exactly once for every selected item, in upload order, whatever the
\* outcomes of the earlier items were.
C1_EverySelectedInvokedOnce ==
    /\ \A k \in 1..Len(invoked) : k <= Len(selected_videos) /\ invoked[k].key = selected_videos[k].key
    /\ (RunOver /\ button) =>
           /\ Len(invoked) = Cardinality(SelectedKeys)
           /\ {invoked[k].key : k \in 1..Len(invoked)} = SelectedKeys

\* The Report phase has been reached: the loop over the selected videos ended.
ReportReached ==
    /\ selected_videos # << >>
    /\ i = Len(selected_videos)
    /\ pc \in {"cleanup", "done", "crashed"}
    /\ error # "FileNotFoundError"

RECURSIVE TotalOriginalOfResults(_)
TotalOriginalOfResults(rs) ==
    IF rs = << >> THEN FZero ELSE FAdd(Head(rs).original_size, TotalOriginalOfResults(Tail(rs)))

\* C2: past the Report phase, with no successful compression or a total
\* original size of zero, the reduction is reported as not applicable, no
\* error was raised and the run goes on to its end.
C2_ReductionNotApplicable ==
    (ReportReached /\ (compressed_videos = << >> \/ TotalOriginalOfResults(compressed_videos) = FZero)) =>
        /\ error = "none"
        /\ pc # "crashed"
        /\ report # None
        /\ report[1].reduction = None

\* C3: compress() returns success only when the encoder exited 0 and the
\* output file is there; otherwise it returns failure, the item has no
\* result and the later selected items are still processed.
C3_SuccessOnlyWithOutput ==
    \A k \in 1..Len(invoked) :
        /\ invoked[k].success => (invoked[k].status = 0 /\ invoked[k].present)
        /\ (invoked[k].status # 0 \/ ~invoked[k].present) =>
               /\ ~invoked[k].success
               /\ \A m \in 1..Len(compressed_videos) : compressed_videos[m].key # invoked[k].key
               /\ RunOver => Len(invoked) = Len(selected_videos)

\* The sums the claim speaks of, from the log of encoder runs: over the runs
\* that succeeded, the size of the uploaded file and the size the encoder left.
RECURSIVE SuccessTotals(_)
SuccessTotals(log) ==
    IF log = << >> THEN [original |-> FZero, compressed |-> FZero]
    ELSE LET rest == SuccessTotals(Tail(log))
             e == Head(log)
         IN  IF e.success
             THEN [original |-> FAdd(Frac(uploaded_files[e.key[1]].bytes, MiB), rest.original),
                   compressed |-> FAdd(Frac(e.out_bytes, MiB), rest.compressed)]
             ELSE rest

\* C4: the totals of the report are the sums over exactly the items whose
\* compression succeeded in this run; an unselected or failed item adds to
\* neither.
C4_TotalsOverSuccessesOnly ==
    report # None =>
        /\ report[1].total_original = SuccessTotals(invoked).original
        /\ report[1].total_compressed = SuccessTotals(invoked).compressed
        /\ \A k \in 1..Len(invoked) : invoked[k].key \in SelectedKeys

\* A succeeds 10 MB -> 3 MB, B fails: totals 10 MB and 3 MB, reduction 70 %.
C4_Witness ==
    /\ report # None
    /\ Len(invoked) = 2
    /\ invoked[1].success /\ ~invoked[2].success
    /\ report[1].total_original = <<10, 1>>
    /\ report[1].total_compressed = <<3, 1>>
    /\ report[1].reduction = <<70, 1>>

\* C5: when the compress button is handled with no item selected, the
\* warning is shown and no encoder process is run.
C5_NoSelectionWarnsAndSpawnsNothing ==
    /\ (button /\ pc \in {"compress", "report", "cleanup", "done"} /\ NoneSelected) => warned
    /\ (pc \notin {"stage", "review"} /\ NoneSelected) => invoked = << >>

C5_Witness ==
    /\ pc = "done"
    /\ button
    /\ Len(videos_data) = 2
    /\ NoneSelected
    /\ warned
    /\ invoked = << >>

\* C6: a file whose probe fails is staged with no metadata, the other files
\* are staged and probed all the same, it gets no estimate, and when it is
\* selected and the compress button pressed it is passed to the encoder.
C6_ProbeFailureDoesNotAbortBatch ==
    /\ pc # "stage" => Len(videos_data) = Len(uploaded_files)
    /\ \A k \in 1..Len(videos_data) :
           get_video_info(uploaded_files[k].probe) = None =>
               /\ videos_data[k].video_info = None
               /\ k <= Len(shown) => shown[k] = None
               /\ (RunOver /\ button /\ videos_data[k].selected_for_compression) =>
                      \E m \in 1..Len(invoked) : invoked[m].key = videos_data[k].key

\* C7: when a run is over, however it ended, none of the input files it
\* staged is left.
C7_StagedInputsRemoved ==
    RunOver => \A k \in 1..Len(videos_data) : videos_data[k].path \notin tempfiles

\* C8: two results of a run never reference the same output path, and no
\* encoder run writes to the path that another item's result references.
C8_OutputsOwnedExclusively ==
    /\ \A k, m \in 1..Len(compressed_videos) :
           k # m => compressed_videos[k].output_path # compressed_videos[m].output_path
    /\ \A k \in 1..Len(invoked) : \A m \in 1..Len(compressed_videos) :
           compressed_videos[m].key # invoked[k].key =>
               compressed_videos[m].output_path # invoked[k].output

\* The frame rate of the first video stream as ffprobe reports it, 30 when it
\* cannot be evaluated.
ProbedFps(probe) ==
    LET v == EvalRate(FirstStream(probe.streams, "video")[1].r_frame_rate)
    IN  IF v = None THEN FInt(30) ELSE v

\* The estimate with the fps factor the claim states.
ClaimedEstimate(probe, info, res, ra, f, br) ==
    FDiv(FMul(FMul(FMul(FMul(Frac(ParseInt(ReplaceK(br)), 8), FInt(info.duration)),
                        ResolutionFactor(info, res)),
                   FDiv(FInt(ParseInt(f)), ProbedFps(probe))),
              AudioFactor(info, ra)),
         FInt(MiB))

\* C9: with a target fps, the estimate of a probed file uses
\* fpsFactor = targetFps / (the source's probed frame rate).
C9_FpsFactorFromProbedRate ==
    \A k \in 1..Len(shown) :
        (videos_data[k].video_info # None /\ fps # ORIGINAL) =>
            /\ FpsFactor(videos_data[k].video_info[1], fps)
                   = FDiv(FInt(ParseInt(fps)), ProbedFps(uploaded_files[k].probe))
            /\ shown[k] # None =>
                   shown[k] = ClaimedEstimate(uploaded_files[k].probe, videos_data[k].video_info[1],
                                              resolution, remove_audio, fps, bitrate)

====
